---- MODULE Spec2Model ----
(***************************************************************************)
(* macroquad_ldtk: loading an LDtk project (load.rs) into LdtkResources    *)
(* (types.rs) and the queries on the loaded resources (levels.rs).         *)
(*                                                                         *)
(* Conventions.  Option<T> is a sequence of length at most one: None is    *)
(* << >>, Some(v) is <<v>>.  A Vec is a sequence; Rust's 0-based index i   *)
(* is position i + 1.  A HashMap is a function whose DOMAIN is its key     *)
(* set.  A call that can panic returns [panic |-> BOOLEAN, val |-> ...].   *)
(* f32/f64 numbers are represented by the integer they equal.              *)
(***************************************************************************)
EXTENDS Integers, Sequences, FiniteSets, TLC

VARIABLES
    file,       \* what is at the path given to load_project: nothing, bytes
                \* that do not decode, or a document (parser::LdtkJson)
    textures,   \* the caller's slice of (Texture2D, path) pairs
    loaded,     \* what load_project returned: none yet, Ok, Err or a panic
    level,      \* an LdtkLevel the caller holds directly (as test::rect_generation)
    raw,        \* a parser record handed to one of the convert functions
    ret         \* the last query or conversion call and what it returned

vars == <<file, textures, loaded, level, raw, ret>>

----------------------------------------------------------------------------
(* Option, Vec and HashMap helpers *)

None == << >>

Some(v) == <<v>>

is_none(o) == Len(o) = 0

unwrap(o) == o[1]

\* HashMap::new()
EmptyMap == << >>

\* HashMap::insert: a later insert under the same key replaces the value.
insert(m, k, v) == [x \in (DOMAIN m) \cup {k} |-> IF x = k THEN v ELSE m[x]]

\* All sequences over S of length at most n.
SeqUpTo(S, n) == UNION {[1..k -> S] : k \in 0..n}

Ok(v) == [panic |-> FALSE, val |-> v]

Panic == [panic |-> TRUE, val |-> << >>]

NoCall == [op |-> "none", args |-> << >>, panic |-> FALSE, val |-> << >>]

Call(op, args, r) == [op |-> op, args |-> args, panic |-> r.panic, val |-> r.val]

----------------------------------------------------------------------------
(* Rust integer arithmetic and the `as f32` cast *)

Abs(n) == IF n < 0 THEN -n ELSE n

\* i64 `%` with a non-zero divisor: the remainder has the dividend's sign.
RemTrunc(a, b) == IF a >= 0 THEN a % Abs(b) ELSE -((-a) % Abs(b))

\* i64 `/` with a non-zero divisor: the quotient is truncated toward zero.
DivTrunc(a, b) ==
    IF (a >= 0) = (b > 0) THEN Abs(a) \div Abs(b) ELSE -(Abs(a) \div Abs(b))

RECURSIVE Pow2(_)
Pow2(e) == IF e = 0 THEN 1 ELSE 2 * Pow2(e - 1)

RECURSIVE FloorLog2(_)
FloorLog2(n) == IF n < 2 THEN 0 ELSE 1 + FloorLog2(n \div 2)

\* `n as f32` for an i64 n: the nearest f32 (24-bit significand), ties to
\* the even significand.
ToF32(n) ==
    LET a == Abs(n)
        e == FloorLog2(a)
        ulp == IF e < 24 THEN 1 ELSE Pow2(e - 23)
        q == a \div ulp
        r == a % ulp
        up == (2 * r > ulp) \/ (2 * r = ulp /\ q % 2 = 1)
        m == IF up THEN (q + 1) * ulp ELSE q * ulp
    IN  IF n < 0 THEN -m ELSE m

----------------------------------------------------------------------------
(* types.rs *)

\* macroquad's Rect::new(x, y, w, h)
Rect(x, y, w, h) == [x |-> x, y |-> y, w |-> w, h |-> h]

LdtkLayerInstance(gh, gw, gs, ldef, tset, tiles, ents, vals) ==
    [grid_height |-> gh, grid_width |-> gw, grid_size |-> gs,
     layerdef_id |-> ldef, tileset_id |-> tset,
     tiles |-> tiles, entities |-> ents, int_grid_values |-> vals]

LdtkLevel(w, h, layers) == [width |-> w, height |-> h, layers |-> layers]

----------------------------------------------------------------------------
(* levels.rs: LdtkLevel::generate_collision_rects *)

\* The body of the `for (i, val) in ...enumerate()` loop from index i on,
\* with `rects` what has been pushed so far.  `%` and `/` by a zero
\* grid_width panic, and only a matching cell evaluates them.  The i64
\* products stay far from overflow for the sizes drawn here.
RECURSIVE rects_loop(_, _, _, _)
rects_loop(layer, target_value, i, rects) ==
    IF i >= Len(layer.int_grid_values) THEN Ok(rects)
    ELSE IF layer.int_grid_values[i + 1] # target_value
         THEN rects_loop(layer, target_value, i + 1, rects)
    ELSE IF layer.grid_width = 0 THEN Panic
    ELSE rects_loop(layer, target_value, i + 1,
            Append(rects,
                Rect(ToF32(RemTrunc(i, layer.grid_width) * layer.grid_size),
                     ToF32(DivTrunc(i, layer.grid_width) * layer.grid_size),
                     ToF32(layer.grid_size),
                     ToF32(layer.grid_size))))

\* Faulty variant: the row is computed with `%` as the column is.
RECURSIVE rects_loop_swapped(_, _, _, _)
rects_loop_swapped(layer, target_value, i, rects) ==
    IF i >= Len(layer.int_grid_values) THEN Ok(rects)
    ELSE IF layer.int_grid_values[i + 1] # target_value
         THEN rects_loop_swapped(layer, target_value, i + 1, rects)
    ELSE IF layer.grid_width = 0 THEN Panic
    ELSE rects_loop_swapped(layer, target_value, i + 1,
            Append(rects,
                Rect(ToF32(RemTrunc(i, layer.grid_width) * layer.grid_size),
                     ToF32(RemTrunc(i, layer.grid_width) * layer.grid_size),
                     ToF32(layer.grid_size),
                     ToF32(layer.grid_size))))

generate_collision_rects_mutant(self, layer_idx, target_value) ==
    IF layer_idx >= Len(self.layers) THEN Panic
    ELSE rects_loop_swapped(self.layers[layer_idx + 1], target_value, 0, << >>)

\* `&self.layers[layer_idx]` panics when layer_idx is out of bounds.
generate_collision_rects(self, layer_idx, target_value) ==
    IF layer_idx >= Len(self.layers) THEN Panic
    ELSE rects_loop(self.layers[layer_idx + 1], target_value, 0, << >>)

----------------------------------------------------------------------------
(* Inputs of the collision-rectangle specification *)

MaxCells == 3

MaxGridWidth == 2

IntGridValues == 0..2

TargetValues == 0..3

\* 16777217 = 2^24 + 1 is the least positive integer that is no f32.
GridSizes == {-16, 0, 16, 16777217}

GridWidths == 0..MaxGridWidth

\* A layer that only carries int-grid data, as the one of test::rect_generation.
IntGridLayer(gw, gs, vals) ==
    LdtkLayerInstance(3, gw, gs, "No", None, << >>, << >>, vals)

\* The level of test::rect_generation.
TestLevel ==
    LdtkLevel(4, 3, <<IntGridLayer(4, 16, <<2, 0, 3, 0, 1, 2, 1, 0, 1, 1, 0, 1>>)>>)

\* The `expected` vector of test::rect_generation.
TestExpected ==
    <<Rect(0, 16, 16, 16), Rect(32, 16, 16, 16), Rect(0, 32, 16, 16),
      Rect(16, 32, 16, 16), Rect(48, 32, 16, 16)>>

\* Levels of one layer, or of two with the layer under test second.
RectLevels ==
    {TestLevel} \cup
    {LdtkLevel(4, 3, pre \o <<IntGridLayer(gw, gs, vals)>>) :
        pre \in {<< >>, <<IntGridLayer(1, 16, <<3>>)>>},
        gw \in GridWidths, gs \in GridSizes,
        vals \in SeqUpTo(IntGridValues, MaxCells)}

----------------------------------------------------------------------------
(* parser records, with the fields load.rs reads *)

TileInstance(a, px, src, t) == [a |-> a, px |-> px, src |-> src, t |-> t]

EntityInstance(grid, px, world_x, world_y, identifier, iid) ==
    [grid |-> grid, pivot |-> <<0, 1>>, tags |-> <<"spawn">>, px |-> px,
     world_x |-> world_x, world_y |-> world_y,
     identifier |-> identifier, iid |-> iid, height |-> 16, width |-> 8]

LayerInstance(identifier, tileset_rel_path, grid_tiles, auto_layer_tiles, entity_instances, int_grid_csv) ==
    [c_hei |-> 1, c_wid |-> 2, grid_size |-> 16,
     identifier |-> identifier, tileset_rel_path |-> tileset_rel_path,
     grid_tiles |-> grid_tiles, auto_layer_tiles |-> auto_layer_tiles,
     entity_instances |-> entity_instances, int_grid_csv |-> int_grid_csv]

Level(world_x, world_y, px_wid, layer_instances) ==
    [world_x |-> world_x, world_y |-> world_y, px_wid |-> px_wid,
     px_hei |-> 16, layer_instances |-> layer_instances]

LayerDefinition(layer_definition_type, identifier, uid) ==
    [layer_definition_type |-> layer_definition_type,
     identifier |-> identifier, display_opacity |-> 1, grid_size |-> 16,
     uid |-> uid]

TilesetDefinition(rel_path, identifier, uid, tile_grid_size) ==
    [rel_path |-> rel_path, c_hei |-> 4, c_wid |-> 8, padding |-> 0,
     spacing |-> 1, tile_grid_size |-> tile_grid_size,
     identifier |-> identifier, uid |-> uid]

LdtkJson(tilesets, layers, world_layout, levels) ==
    [defs |-> [tilesets |-> tilesets, layers |-> layers],
     world_layout |-> world_layout, levels |-> levels]

----------------------------------------------------------------------------
(* load.rs: mod convert *)

convert_tile_instance(input) ==
    [alpha |-> input.a,
     px_coords |-> <<input.px[1], input.px[2]>>,
     src_coords |-> <<input.src[1], input.src[2]>>,
     tile_id |-> input.t]

LayerTypes == {"IntGrid", "Tiles", "AutoLayer", "Entities"}

\* Result<LdtkLayerType, Error>
ResOk(v) == [ok |-> TRUE, val |-> v]

ResErr(e) == [ok |-> FALSE, val |-> e]

LayerTypeNotFound(s) == [type |-> "LayerTypeNotFound", layer_type |-> s]

NullWorldType == [type |-> "NullWorldType"]

Io == [type |-> "Io"]

SerdeJson(category) == [type |-> "SerdeJson", category |-> category]

convert_layer_type(input) ==
    CASE input = "IntGrid" -> ResOk("IntGrid")
      [] input = "Tiles" -> ResOk("Tiles")
      [] input = "AutoLayer" -> ResOk("AutoLayer")
      [] input = "Entities" -> ResOk("Entities")
      [] OTHER -> ResErr(LayerTypeNotFound(input))

\* Faulty variant: world coordinates are taken from world_x alone.
convert_entity_instance_mutant(input) ==
    [grid_coords |-> <<input.grid[1], input.grid[2]>>,
     pivot |-> <<input.pivot[1], input.pivot[2]>>,
     tags |-> input.tags,
     px_coords |-> <<input.px[1], input.px[2]>>,
     world_coords |->
        IF ~is_none(input.world_x)
        THEN Some(<<unwrap(input.world_x),
                    IF is_none(input.world_y) THEN 0 ELSE unwrap(input.world_y)>>)
        ELSE None,
     identifier |-> input.identifier,
     iid |-> input.iid,
     height |-> input.height,
     width |-> input.width]

convert_entity_instance(input) ==
    LET world_coords ==
            IF ~is_none(input.world_x)
            THEN IF ~is_none(input.world_y)
                 THEN Some(<<unwrap(input.world_x), unwrap(input.world_y)>>)
                 ELSE None
            ELSE None
    IN  [grid_coords |-> <<input.grid[1], input.grid[2]>>,
         pivot |-> <<input.pivot[1], input.pivot[2]>>,
         tags |-> input.tags,
         px_coords |-> <<input.px[1], input.px[2]>>,
         world_coords |-> world_coords,
         identifier |-> input.identifier,
         iid |-> input.iid,
         height |-> input.height,
         width |-> input.width]

convert_layer_def(input) ==
    LET layer_type == convert_layer_type(input.layer_definition_type)
    IN  IF ~layer_type.ok THEN layer_type
        ELSE ResOk([layer_type |-> layer_type.val,
                    identifier |-> input.identifier,
                    opacity |-> input.display_opacity,
                    grid_size |-> input.grid_size,
                    uid |-> input.uid])

\* `.iter().map(f).collect()`
RECURSIVE map_collect_tiles(_)
map_collect_tiles(s) ==
    IF s = << >> THEN << >>
    ELSE <<convert_tile_instance(Head(s))>> \o map_collect_tiles(Tail(s))

RECURSIVE map_collect_entities(_)
map_collect_entities(s) ==
    IF s = << >> THEN << >>
    ELSE <<convert_entity_instance(Head(s))>> \o map_collect_entities(Tail(s))

\* Faulty variant: the auto tiles win whenever there are any.
convert_layer_instance_mutant(l) ==
    LET source_tiles == IF Len(l.auto_layer_tiles) > 0 THEN l.auto_layer_tiles
                        ELSE l.grid_tiles
    IN  LdtkLayerInstance(l.c_hei, l.c_wid, l.grid_size, l.identifier,
                          l.tileset_rel_path, map_collect_tiles(source_tiles),
                          map_collect_entities(l.entity_instances), l.int_grid_csv)

\* The body of convert_level's `for l in ...` loop: the value pushed for l.
convert_layer_instance(l) ==
    LET source_tiles == IF Len(l.grid_tiles) > 0 THEN l.grid_tiles
                        ELSE l.auto_layer_tiles
        tiles == map_collect_tiles(source_tiles)
        entities == map_collect_entities(l.entity_instances)
    IN  LdtkLayerInstance(l.c_hei, l.c_wid, l.grid_size, l.identifier,
                          l.tileset_rel_path, tiles, entities, l.int_grid_csv)

RECURSIVE convert_level_loop(_, _)
convert_level_loop(ls, layer_insts) ==
    IF ls = << >> THEN layer_insts
    ELSE convert_level_loop(Tail(ls),
                            Append(layer_insts, convert_layer_instance(Head(ls))))

\* `input.layer_instances.as_ref().unwrap()` panics on None.
convert_level(input) ==
    IF is_none(input.layer_instances) THEN Panic
    ELSE Ok(LdtkLevel(input.px_wid, input.px_hei,
                      convert_level_loop(unwrap(input.layer_instances), << >>)))

----------------------------------------------------------------------------
(* load.rs: load_project_raw and load_project *)

\* File::open(path)? and serde_json::from_reader(reader)?
load_project_raw(f) ==
    CASE f.kind = "missing" -> ResErr(Io)
      [] f.kind = "invalid" -> ResErr(SerdeJson(f.category))
      [] OTHER -> ResOk(f.json)

\* `textures.iter().position(|(_, name)| *name == wanted)` from index i on:
\* the 0-based index of the first pair with that path.
RECURSIVE position_from(_, _, _)
position_from(texs, wanted, i) ==
    IF i >= Len(texs) THEN None
    ELSE IF texs[i + 1][2] = wanted THEN Some(i)
    ELSE position_from(texs, wanted, i + 1)

\* Faulty variant: the index of the last pair with that path.
RECURSIVE rposition_from(_, _, _)
rposition_from(texs, wanted, i) ==
    IF i >= Len(texs) THEN None
    ELSE LET later == rposition_from(texs, wanted, i + 1)
         IN  IF ~is_none(later) THEN later
             ELSE IF texs[i + 1][2] = wanted THEN Some(i) ELSE None

find_texture_mutant(texs, json_t) ==
    IF Len(texs) = 0 \/ is_none(json_t.rel_path) THEN Panic
    ELSE LET p == rposition_from(texs, unwrap(json_t.rel_path), 0)
         IN  IF is_none(p) THEN Panic ELSE Ok(unwrap(p))

\* `let tex_i = textures.iter().position(..).unwrap()`.  The closure unwraps
\* json_t.rel_path for every pair it visits, so an absent rel_path panics
\* there, and with no pair at all the outer unwrap of None panics.
find_texture(texs, json_t) ==
    IF Len(texs) = 0 \/ is_none(json_t.rel_path) THEN Panic
    ELSE LET p == position_from(texs, unwrap(json_t.rel_path), 0)
         IN  IF is_none(p) THEN Panic ELSE Ok(unwrap(p))

\* `tex_i as u32` keeps every index below 2^32, which all indices here are.
LdtkTileset(json_t, tex_i) ==
    [grid_height |-> json_t.c_hei, grid_width |-> json_t.c_wid,
     padding |-> json_t.padding, spacing |-> json_t.spacing,
     tile_grid_size |-> json_t.tile_grid_size,
     identifier |-> json_t.identifier, uid |-> json_t.uid,
     texture_index |-> tex_i]

\* `for json_t in &json.defs.tilesets`, keyed by the matched pair's path.
RECURSIVE load_tilesets(_, _, _)
load_tilesets(defs, texs, tilesets) ==
    IF defs = << >> THEN Ok(tilesets)
    ELSE LET json_t == Head(defs)
             tex_i == find_texture(texs, json_t)
         IN  IF tex_i.panic THEN Panic
             ELSE load_tilesets(Tail(defs), texs,
                     insert(tilesets, texs[tex_i.val + 1][2],
                            LdtkTileset(json_t, tex_i.val)))

\* Faulty variant: every layer definition is converted and the last error returned.
RECURSIVE load_layer_defs_last_error(_, _)
load_layer_defs_last_error(defs, layer_defs) ==
    IF defs = << >> THEN ResOk(layer_defs)
    ELSE LET json_l == Head(defs)
             layerdef == convert_layer_def(json_l)
             rest == load_layer_defs_last_error(Tail(defs),
                        IF layerdef.ok
                        THEN insert(layer_defs, json_l.identifier, layerdef.val)
                        ELSE layer_defs)
         IN  IF ~layerdef.ok /\ rest.ok THEN layerdef ELSE rest

\* `for json_l in &json.defs.layers`: `?` returns the first error.
RECURSIVE load_layer_defs(_, _)
load_layer_defs(defs, layer_defs) ==
    IF defs = << >> THEN ResOk(layer_defs)
    ELSE LET json_l == Head(defs)
             layerdef == convert_layer_def(json_l)
         IN  IF ~layerdef.ok THEN layerdef
             ELSE load_layer_defs(Tail(defs),
                     insert(layer_defs, json_l.identifier, layerdef.val))

\* Faulty variant: the linear layouts key by world_x/world_y as the free ones do.
level_coord_mutant(world_layout, i, lvl) == <<lvl.world_x, lvl.world_y>>

\* The key of the `match json.world_layout.unwrap()` arms for the level at
\* 0-based index i.
level_coord(world_layout, i, lvl) ==
    CASE world_layout \in {"Free", "GridVania"} -> <<lvl.world_x, lvl.world_y>>
      [] world_layout = "LinearHorizontal" -> <<i, 0>>
      [] world_layout = "LinearVertical" -> <<0, i>>

\* Faulty variant: a coordinate that is taken keeps its first level.
RECURSIVE load_levels_keep_first(_, _, _, _)
load_levels_keep_first(lvls, world_layout, i, levels) ==
    IF i >= Len(lvls) THEN Ok(levels)
    ELSE LET converted == convert_level(lvls[i + 1])
             k == level_coord(world_layout, i, lvls[i + 1])
         IN  IF converted.panic THEN Panic
             ELSE load_levels_keep_first(lvls, world_layout, i + 1,
                     IF k \in DOMAIN levels THEN levels
                     ELSE insert(levels, k, converted.val))

\* The `for level in &json.levels` loops from index i on.
RECURSIVE load_levels(_, _, _, _)
load_levels(lvls, world_layout, i, levels) ==
    IF i >= Len(lvls) THEN Ok(levels)
    ELSE LET converted == convert_level(lvls[i + 1])
         IN  IF converted.panic THEN Panic
             ELSE load_levels(lvls, world_layout, i + 1,
                     insert(levels, level_coord(world_layout, i, lvls[i + 1]),
                            converted.val))

LdtkResources(levels, tilesets, layer_defs) ==
    [levels |-> levels, tilesets |-> tilesets, layer_defs |-> layer_defs]

NotLoaded == [kind |-> "none", err |-> None, res |-> None]

LoadOk(res) == [kind |-> "Ok", err |-> None, res |-> Some(res)]

LoadErr(e) == [kind |-> "Err", err |-> Some(e), res |-> None]

LoadPanic == [kind |-> "Panic", err |-> None, res |-> None]

\* Faulty variant: the world layout is checked first.
load_project_mutant(f, texs) ==
    LET raw_json == load_project_raw(f)
    IN  IF ~raw_json.ok THEN LoadErr(raw_json.val)
        ELSE IF is_none(raw_json.val.world_layout) THEN LoadErr(NullWorldType)
        ELSE
        LET j == raw_json.val
            tilesets == load_tilesets(j.defs.tilesets, texs, EmptyMap)
            layer_defs == load_layer_defs(j.defs.layers, EmptyMap)
            levels == load_levels(j.levels, unwrap(j.world_layout), 0, EmptyMap)
        IN  IF tilesets.panic THEN LoadPanic
            ELSE IF ~layer_defs.ok THEN LoadErr(layer_defs.val)
            ELSE IF levels.panic THEN LoadPanic
            ELSE LoadOk(LdtkResources(levels.val, tilesets.val, layer_defs.val))

load_project(f, texs) ==
    LET raw_json == load_project_raw(f)
    IN  IF ~raw_json.ok THEN LoadErr(raw_json.val)
        ELSE
        LET j == raw_json.val
            tilesets == load_tilesets(j.defs.tilesets, texs, EmptyMap)
            layer_defs == load_layer_defs(j.defs.layers, EmptyMap)
            levels == load_levels(j.levels, unwrap(j.world_layout), 0, EmptyMap)
        IN  IF tilesets.panic THEN LoadPanic
            ELSE IF ~layer_defs.ok THEN LoadErr(layer_defs.val)
            ELSE IF is_none(j.world_layout) THEN LoadErr(NullWorldType)
            ELSE IF levels.panic THEN LoadPanic
            ELSE LoadOk(LdtkResources(levels.val, tilesets.val, layer_defs.val))

----------------------------------------------------------------------------
(* levels.rs: LdtkResources::get_entities *)

\* `for e in &l.entities { entities.push(e) }`
RECURSIVE push_entities(_, _)
push_entities(es, entities) ==
    IF es = << >> THEN entities
    ELSE push_entities(Tail(es), Append(entities, Head(es)))

\* `for l in &level.layers`
RECURSIVE entities_loop(_, _)
entities_loop(layers, entities) ==
    IF layers = << >> THEN entities
    ELSE entities_loop(Tail(layers), push_entities(Head(layers).entities, entities))

\* Faulty variant: only the first layer's entities are collected.
get_entities_mutant(self, coord) ==
    IF coord \notin DOMAIN self.levels THEN Panic
    ELSE LET layers == self.levels[coord].layers
         IN  Ok(IF layers = << >> THEN << >>
                ELSE push_entities(Head(layers).entities, << >>))

\* `.get(&level_coord).expect(..)` panics when no level is stored there.
get_entities(self, coord) ==
    IF coord \notin DOMAIN self.levels THEN Panic
    ELSE Ok(entities_loop(self.levels[coord].layers, << >>))

----------------------------------------------------------------------------
(* levels.rs: LdtkResources::draw_level *)

\* macroquad's Vec2
Vec2(x, y) == [x |-> x, y |-> y]

\* One call of draw_texture_ex(tex, x, y, WHITE, DrawTextureParams { source, .. })
DrawCall(tex, x, y, source) == [tex |-> tex, x |-> x, y |-> y, source |-> source]

\* `px as f32 / size as f32 < v` for integers px, size and v small enough
\* for the quotient to fall on the same side of v as its f32 rounding.  A
\* zero size gives an infinity or, for 0 / 0, a NaN, which compares false.
DivLt(px, size, v) ==
    CASE size > 0 -> px < v * size
      [] size < 0 -> px > v * size
      [] OTHER -> px < 0

\* `px as f32 / size as f32 >= v`, likewise.
DivGe(px, size, v) ==
    CASE size > 0 -> px >= v * size
      [] size < 0 -> px <= v * size
      [] OTHER -> px > 0

\* The `continue` test of the tile loop for a given source rectangle s.
outside(t, tileset, s) ==
    \/ DivLt(t.px_coords[1], tileset.tile_grid_size, s.x)
    \/ DivGe(t.px_coords[1], tileset.tile_grid_size, ToF32(s.x + s.w))
    \/ DivLt(t.px_coords[2], tileset.tile_grid_size, s.y)
    \/ DivGe(t.px_coords[2], tileset.tile_grid_size, ToF32(s.y + s.h))

\* `for t in &layer.tiles`, with `draws` the calls made so far.
RECURSIVE draw_tiles(_, _, _, _, _, _)
draw_tiles(tiles, tileset, tex, position, source, draws) ==
    IF tiles = << >> THEN draws
    ELSE LET t == Head(tiles)
         IN  IF ~is_none(source) /\ outside(t, tileset, unwrap(source))
             THEN draw_tiles(Tail(tiles), tileset, tex, position, source, draws)
             ELSE draw_tiles(Tail(tiles), tileset, tex, position, source,
                     Append(draws,
                        DrawCall(tex,
                                 ToF32(ToF32(t.px_coords[1]) + position.x),
                                 ToF32(ToF32(t.px_coords[2]) + position.y),
                                 Rect(ToF32(t.src_coords[1]), ToF32(t.src_coords[2]),
                                      ToF32(tileset.tile_grid_size),
                                      ToF32(tileset.tile_grid_size)))))

\* `for layer in &lvl.layers`.  The unwraps of the two lookups and the
\* index into the caller's slice panic, after the calls already made.
RECURSIVE draw_layers(_, _, _, _, _, _)
draw_layers(self, layers, texs, position, source, draws) ==
    IF layers = << >> THEN Ok(draws)
    ELSE LET layer == Head(layers)
         IN  IF layer.layerdef_id \notin DOMAIN self.layer_defs
             THEN [panic |-> TRUE, val |-> draws]
             ELSE IF self.layer_defs[layer.layerdef_id].layer_type = "Entities"
             THEN draw_layers(self, Tail(layers), texs, position, source, draws)
             ELSE IF is_none(layer.tileset_id)
             THEN draw_layers(self, Tail(layers), texs, position, source, draws)
             ELSE IF unwrap(layer.tileset_id) \notin DOMAIN self.tilesets
             THEN [panic |-> TRUE, val |-> draws]
             ELSE LET tileset == self.tilesets[unwrap(layer.tileset_id)]
                  IN  IF tileset.texture_index >= Len(texs)
                      THEN [panic |-> TRUE, val |-> draws]
                      ELSE draw_layers(self, Tail(layers), texs, position, source,
                              draw_tiles(layer.tiles, tileset,
                                         texs[tileset.texture_index + 1][1],
                                         position, source, draws))

\* `.get(&level_coord).expect(..)` panics when no level is stored there.
\* The value is the sequence of draw_texture_ex calls made.
draw_level(self, coord, texs, position, source) ==
    IF coord \notin DOMAIN self.levels THEN Panic
    ELSE draw_layers(self, self.levels[coord].layers, texs, position, source, << >>)

----------------------------------------------------------------------------
(* Inputs of the conversion specification *)

MaxTiles == 2

MaxEntities == 2

TileChoices == {TileInstance(1, <<0, 0>>, <<16, 0>>, 1), TileInstance(1, <<16, 0>>, <<0, 32>>, 7)}

\* world_x and world_y present or absent independently.
EntityChoices ==
    {EntityInstance(<<1, 2>>, <<16, 32>>, wx, wy, "Coin", "iid-1") :
        wx \in {None, Some(300)}, wy \in {None, Some(-7)}}

RawLayers ==
    {LayerInstance("Ground", Some("a.png"), gt, at, es, <<0, 1>>) :
        gt \in SeqUpTo(TileChoices, MaxTiles),
        at \in SeqUpTo(TileChoices, MaxTiles),
        es \in SeqUpTo(EntityChoices, MaxEntities)}

\* Levels of one layer, and the level of a project saved with separate
\* level files, whose layer_instances is null.
RawLevels ==
    {Level(0, 0, 32, None)} \cup {Level(0, 0, 32, Some(<<l>>)) : l \in RawLayers}

----------------------------------------------------------------------------
(* Inputs of the loading specification *)

MaxTilesets == 2

MaxTextures == 2

MaxLayerDefs == 2

MaxLevels == 2

WorldLayouts == {"Free", "GridVania", "LinearHorizontal", "LinearVertical"}

TexturePaths == {"a.png", "b.png"}

\* The caller's pairs: the texture handle of pair i is its position.
TextureLists ==
    {[i \in DOMAIN ps |-> <<i, ps[i]>>] : ps \in SeqUpTo(TexturePaths, MaxTextures)}

TilesetChoices ==
    {TilesetDefinition(Some("a.png"), "TilesA", 1, 16),
     TilesetDefinition(Some("b.png"), "TilesB", 2, 8),
     TilesetDefinition(None, "Embedded", 3, 16)}

LayerDefChoices ==
    {LayerDefinition("IntGrid", "Collision", 10),
     LayerDefinition("Tiles", "Ground", 11),
     LayerDefinition("AutoLayer", "Ground", 12),
     LayerDefinition("Entities", "Objs", 13),
     LayerDefinition("tiles", "Ground", 14),
     LayerDefinition("Bogus", "Objs", 15)}

Coin == EntityInstance(<<1, 2>>, <<16, 32>>, Some(300), Some(-7), "Coin", "iid-1")

Door == EntityInstance(<<0, 0>>, <<0, 0>>, None, None, "Door", "iid-2")

Tile1 == TileInstance(1, <<0, 0>>, <<16, 0>>, 1)

Tile2 == TileInstance(1, <<16, 0>>, <<0, 32>>, 7)

GroundLayer == LayerInstance("Ground", Some("a.png"), <<Tile1, Tile2>>, << >>, << >>, <<1, 0>>)

ObjsLayer == LayerInstance("Objs", None, << >>, << >>, <<Coin, Door>>, << >>)

MoreObjsLayer == LayerInstance("Objs", None, << >>, << >>, <<Door, Coin, Coin>>, << >>)

\* A layer instance naming a layer definition and a tileset the document
\* does not define.
GhostLayer == LayerInstance("Ghost", Some("c.png"), << >>, <<Tile2>>, << >>, <<0, 1>>)

LayerLists ==
    {None, Some(<< >>), Some(<<GroundLayer>>), Some(<<ObjsLayer, GroundLayer, MoreObjsLayer>>),
     Some(<<GhostLayer>>)}

LevelChoices ==
    {Level(c[1], c[2], 32, ls) : c \in {<<0, 0>>, <<256, -16>>}, ls \in LayerLists}

SimpleLevel == Level(0, 0, 32, Some(<<GroundLayer>>))

Document(j) == [kind |-> "json", json |-> j]

\* Documents that vary the definitions: tilesets, layer definitions and
\* the presence of a world layout, with one level.
DefinitionFiles ==
    {Document(LdtkJson(ts, ls, wl, lv)) :
        ts \in SeqUpTo(TilesetChoices, MaxTilesets),
        ls \in SeqUpTo(LayerDefChoices, MaxLayerDefs),
        wl \in {None, Some("GridVania")},
        lv \in {<<SimpleLevel>>}}

\* Documents that vary the levels and the world layout, with one tileset
\* and two layer definitions.
LevelFiles ==
    {Document(LdtkJson(<<TilesetDefinition(Some("a.png"), "TilesA", 1, 16)>>,
                       <<LayerDefinition("Tiles", "Ground", 11),
                         LayerDefinition("Entities", "Objs", 13)>>,
                       wl, lv)) :
        wl \in {None} \cup {Some(w) : w \in WorldLayouts},
        lv \in SeqUpTo(LevelChoices, MaxLevels)}

\* An Entities layer that carries a tileset and a tile all the same.
TiledObjsLayer == LayerInstance("Objs", Some("a.png"), <<Tile2>>, << >>, <<Coin>>, << >>)

\* A Tiles layer with a tile and no tileset.
BareLayer == LayerInstance("Ground", None, <<Tile1>>, << >>, << >>, << >>)

\* A Tiles layer with auto tiles only, the second before the first.
AutoTilesLayer == LayerInstance("Ground", Some("a.png"), << >>, <<Tile2, Tile1, Tile2>>, << >>, << >>)

DrawLayerLists ==
    {<<TiledObjsLayer, BareLayer, GroundLayer>>, <<GroundLayer, AutoTilesLayer>>,
     <<GroundLayer, GhostLayer, GroundLayer>>}

\* Documents of one level for drawing: its layers, and the tile size of the
\* tileset, which is the layers' grid size (16) or half of it.
DrawFiles ==
    {Document(LdtkJson(<<TilesetDefinition(Some("a.png"), "TilesA", 1, size)>>,
                       <<LayerDefinition("Tiles", "Ground", 11),
                         LayerDefinition("Entities", "Objs", 13)>>,
                       Some("Free"), <<Level(0, 0, 32, Some(ls))>>)) :
        size \in {16, 8}, ls \in DrawLayerLists}

\* The `position` and `source` arguments of draw_level.
DrawPositions == {Vec2(100, -50)}

DrawSources == {None, Some(Rect(1, 0, 1, 1)), Some(Rect(0, 0, 2, 1))}

\* The caller's pairs for the documents of LevelFiles: their tileset's
\* texture first, or second.
LevelTextures == {<<<<1, "a.png">>>>, <<<<1, "b.png">>, <<2, "a.png">>>>}

UnreadableFiles ==
    {[kind |-> "missing"], [kind |-> "invalid", category |-> "Syntax"],
     [kind |-> "invalid", category |-> "Data"]}

NoLevel == LdtkLevel(0, 0, << >>)

NoRaw == Level(0, 0, 0, None)

----------------------------------------------------------------------------
(* Actions *)

\* load_project(path, &textures), called once.
LoadProject ==
    /\ loaded.kind = "none"
    /\ loaded' = load_project(file, textures)
    /\ UNCHANGED <<file, textures, level, raw, ret>>

\* res.get_entities(level_coord) on the loaded resources.
GetEntities ==
    /\ loaded.kind = "Ok"
    /\ \E c \in (DOMAIN unwrap(loaded.res).levels) \cup {<<7, 7>>} :
          ret' = Call("get_entities", <<c>>, get_entities(unwrap(loaded.res), c))
    /\ UNCHANGED <<file, textures, loaded, level, raw>>

\* res.draw_level(level_coord, &textures, position, source), with the
\* texture slice the project was loaded with.
DrawLevel ==
    /\ loaded.kind = "Ok"
    /\ \E c \in (DOMAIN unwrap(loaded.res).levels) \cup {<<7, 7>>},
          position \in DrawPositions, source \in DrawSources :
          ret' = Call("draw_level", <<c, position, source>>,
                      draw_level(unwrap(loaded.res), c, textures, position, source))
    /\ UNCHANGED <<file, textures, loaded, level, raw>>

\* res.levels[&coord].generate_collision_rects(layer_idx, target_value)
StoredCollisionRects ==
    /\ loaded.kind = "Ok"
    /\ \E c \in DOMAIN unwrap(loaded.res).levels, layer_idx \in 0..1, t \in 0..1 :
          ret' = Call("generate_collision_rects", <<c, layer_idx, t>>,
                      generate_collision_rects(unwrap(loaded.res).levels[c], layer_idx, t))
    /\ UNCHANGED <<file, textures, loaded, level, raw>>

\* level.generate_collision_rects(layer_idx, target_value) on a level the
\* caller built, as test::rect_generation does.
GenerateCollisionRects ==
    /\ \E layer_idx \in 0..2, t \in TargetValues :
          ret' = Call("generate_collision_rects", <<layer_idx, t>>,
                      generate_collision_rects(level, layer_idx, t))
    /\ UNCHANGED <<file, textures, loaded, level, raw>>

ConvertLevel ==
    /\ ret' = Call("convert_level", <<raw>>, convert_level(raw))
    /\ UNCHANGED <<file, textures, loaded, level, raw>>

ConvertEntityInstance ==
    /\ ~is_none(raw.layer_instances)
    /\ \E l \in DOMAIN unwrap(raw.layer_instances) :
          \E e \in DOMAIN unwrap(raw.layer_instances)[l].entity_instances :
             LET input == unwrap(raw.layer_instances)[l].entity_instances[e]
             IN  ret' = Call("convert_entity_instance", <<input>>,
                             Ok(convert_entity_instance(input)))
    /\ UNCHANGED <<file, textures, loaded, level, raw>>

ConvertTileInstance ==
    /\ ~is_none(raw.layer_instances)
    /\ \E l \in DOMAIN unwrap(raw.layer_instances) :
          LET li == unwrap(raw.layer_instances)[l]
              all == li.grid_tiles \o li.auto_layer_tiles
          IN  \E t \in DOMAIN all :
                 ret' = Call("convert_tile_instance", <<all[t]>>,
                             Ok(convert_tile_instance(all[t])))
    /\ UNCHANGED <<file, textures, loaded, level, raw>>

ConvertLayerDef ==
    /\ \E input \in LayerDefChoices :
          LET r == convert_layer_def(input)
          IN  ret' = [op |-> "convert_layer_def", args |-> <<input>>,
                      panic |-> FALSE, val |-> r]
    /\ UNCHANGED <<file, textures, loaded, level, raw>>

----------------------------------------------------------------------------
(* Specifications *)

\* Loading a project and querying the loaded resources.
Init ==
    /\ \/ /\ file \in DefinitionFiles \cup UnreadableFiles
          /\ textures \in TextureLists
       \/ /\ file \in LevelFiles \cup DrawFiles
          /\ textures \in LevelTextures
    /\ loaded = NotLoaded
    /\ level = NoLevel
    /\ raw = NoRaw
    /\ ret = NoCall

Next == LoadProject \/ GetEntities \/ StoredCollisionRects \/ DrawLevel

Spec == Init /\ [][Next]_vars

\* Collision rectangles of a level the caller built.
InitRects ==
    /\ file = [kind |-> "missing"]
    /\ textures = << >>
    /\ loaded = NotLoaded
    /\ level \in RectLevels
    /\ raw = NoRaw
    /\ ret = NoCall

NextRects == GenerateCollisionRects

SpecRects == InitRects /\ [][NextRects]_vars

\* The conversion functions on parser records.
InitConvert ==
    /\ file = [kind |-> "missing"]
    /\ textures = << >>
    /\ loaded = NotLoaded
    /\ level = NoLevel
    /\ raw \in RawLevels
    /\ ret = NoCall

NextConvert == ConvertLevel \/ ConvertEntityInstance \/ ConvertTileInstance \/ ConvertLayerDef

SpecConvert == InitConvert /\ [][NextConvert]_vars

----------------------------------------------------------------------------
(* What the claims speak about *)

Doc == file.json

Res == unwrap(loaded.res)

Returned == file.kind = "json" /\ loaded.kind # "none"

\* Every tileset definition declares a path that some caller pair carries.
AllTilesetsResolve ==
    \A i \in DOMAIN Doc.defs.tilesets :
        /\ ~is_none(Doc.defs.tilesets[i].rel_path)
        /\ \E j \in DOMAIN textures : textures[j][2] = unwrap(Doc.defs.tilesets[i].rel_path)

\* The positions of the layer definitions whose type string is not known.
UnknownLayerDefs ==
    {i \in DOMAIN Doc.defs.layers : Doc.defs.layers[i].layer_definition_type \notin LayerTypes}

Least(S) == CHOOSE i \in S : \A j \in S : i <= j

\* The 0-based indices of the cells of an int grid that hold the target.
Cells(vals, target) == {i \in 0..(Len(vals) - 1) : vals[i + 1] = target}

\* How many cells of S come before cell i in scan order.
Rank(S, i) == Cardinality({j \in S : j < i})

\* The number of entities in the layers before layer l.
RECURSIVE EntitiesBefore(_, _)
EntitiesBefore(layers, l) ==
    IF l <= 1 THEN 0 ELSE EntitiesBefore(layers, l - 1) + Len(layers[l - 1].entities)

----------------------------------------------------------------------------
(* C1 *)

\* C1 as claimed: for ANY grid_width, grid_size and int-grid values, the call
\* returns one rectangle ((i mod grid_width) * grid_size,
\* (i div grid_width) * grid_size, grid_size, grid_size) per cell i holding
\* the target, in increasing order of i, and the empty sequence when the
\* target never occurs.
C1_AsClaimed ==
    (ret.op = "generate_collision_rects" /\ ret.args[1] < Len(level.layers)) =>
        LET layer == level.layers[ret.args[1] + 1]
            cells == Cells(layer.int_grid_values, ret.args[2])
        IN  /\ ~ret.panic
            /\ Len(ret.val) = Cardinality(cells)
            /\ \A i \in cells :
                  ret.val[Rank(cells, i) + 1] =
                      Rect((i % layer.grid_width) * layer.grid_size,
                           (i \div layer.grid_width) * layer.grid_size,
                           layer.grid_size, layer.grid_size)

\* C1, amended: generate_collision_rects returns the empty sequence when the
\* target never occurs; with grid_width >= 1 it returns exactly one rectangle
\* per cell i holding the target, in increasing order of i, none merged, the
\* rectangle being ((i mod grid_width) * grid_size, (i div grid_width) *
\* grid_size, grid_size, grid_size) with each number rounded to the nearest
\* f32 (the number itself up to 2^24 in magnitude); with grid_width = 0 and
\* the target occurring it panics.
C1_Theorem ==
    (ret.op = "generate_collision_rects" /\ ret.args[1] < Len(level.layers)) =>
        LET layer == level.layers[ret.args[1] + 1]
            cells == Cells(layer.int_grid_values, ret.args[2])
        IN  /\ cells = {} => (~ret.panic /\ ret.val = << >>)
            /\ (layer.grid_width = 0 /\ cells # {}) => ret.panic
            /\ layer.grid_width >= 1 =>
                  /\ ~ret.panic
                  /\ Len(ret.val) = Cardinality(cells)
                  /\ \A i \in cells :
                        ret.val[Rank(cells, i) + 1] =
                            Rect(ToF32((i % layer.grid_width) * layer.grid_size),
                                 ToF32((i \div layer.grid_width) * layer.grid_size),
                                 ToF32(layer.grid_size), ToF32(layer.grid_size))

\* The call of test::rect_generation returned its `expected` vector.
C1_Witness ==
    /\ level = TestLevel
    /\ ret.op = "generate_collision_rects"
    /\ ret.args = <<0, 1>>
    /\ ~ret.panic
    /\ ret.val = TestExpected

----------------------------------------------------------------------------
(* C2 *)

LinearCoord(i) ==
    IF unwrap(Doc.world_layout) = "LinearHorizontal" THEN <<i, 0>> ELSE <<0, i>>

\* C2: after a successful load of a LinearHorizontal document the i-th level
\* (0-based, document order) is stored under (i, 0), of a LinearVertical one
\* under (0, i), whatever world_x/world_y the levels declare, and the level
\* map holds exactly one entry per document level.
C2_Theorem ==
    (loaded.kind = "Ok" /\ unwrap(Doc.world_layout) \in {"LinearHorizontal", "LinearVertical"}) =>
        /\ DOMAIN Res.levels = {LinearCoord(i) : i \in 0..(Len(Doc.levels) - 1)}
        /\ Cardinality(DOMAIN Res.levels) = Len(Doc.levels)
        /\ \A i \in 0..(Len(Doc.levels) - 1) :
              Res.levels[LinearCoord(i)] = convert_level(Doc.levels[i + 1]).val

\* A LinearHorizontal document of two different levels that declare the
\* same world_x/world_y, neither being its key, was loaded.
C2_Witness ==
    /\ loaded.kind = "Ok"
    /\ unwrap(Doc.world_layout) = "LinearHorizontal"
    /\ Len(Doc.levels) = 2
    /\ Doc.levels[1].world_x = 256 /\ Doc.levels[2].world_x = 256
    /\ Doc.levels[1] # Doc.levels[2]
    /\ DOMAIN Res.levels = {<<0, 0>>, <<1, 0>>}

----------------------------------------------------------------------------
(* C3 *)

DeclaredCoord(lvl) == <<lvl.world_x, lvl.world_y>>

\* C3 as claimed: after a successful load of a Free or GridVania document,
\* EVERY document level L is what is stored under (L.world_x, L.world_y),
\* also when several levels declare the same pair.
C3_AsClaimed ==
    (loaded.kind = "Ok" /\ unwrap(Doc.world_layout) \in {"Free", "GridVania"}) =>
        \A i \in DOMAIN Doc.levels :
            /\ DeclaredCoord(Doc.levels[i]) \in DOMAIN Res.levels
            /\ Res.levels[DeclaredCoord(Doc.levels[i])] = convert_level(Doc.levels[i]).val

\* C3, amended: after a successful load of a Free or GridVania document the
\* keys of the level map are exactly the declared (world_x, world_y) pairs,
\* and under each pair is stored the conversion of the LAST document level
\* declaring it; a level whose pair no later level declares is stored
\* under its pair verbatim.
C3_Theorem ==
    (loaded.kind = "Ok" /\ unwrap(Doc.world_layout) \in {"Free", "GridVania"}) =>
        /\ DOMAIN Res.levels = {DeclaredCoord(Doc.levels[i]) : i \in DOMAIN Doc.levels}
        /\ \A i \in DOMAIN Doc.levels :
              (\A j \in DOMAIN Doc.levels :
                  j > i => DeclaredCoord(Doc.levels[j]) # DeclaredCoord(Doc.levels[i]))
              => Res.levels[DeclaredCoord(Doc.levels[i])] = convert_level(Doc.levels[i]).val

\* A Free document of two different levels declaring the same pair was
\* loaded, and the pair holds the second.
C3_Witness ==
    /\ loaded.kind = "Ok"
    /\ unwrap(Doc.world_layout) = "Free"
    /\ Len(Doc.levels) = 2
    /\ DeclaredCoord(Doc.levels[1]) = DeclaredCoord(Doc.levels[2])
    /\ convert_level(Doc.levels[1]) # convert_level(Doc.levels[2])
    /\ Res.levels[DeclaredCoord(Doc.levels[1])] = convert_level(Doc.levels[2]).val

----------------------------------------------------------------------------
(* C4 *)

\* C4 as claimed: loading a document that declares no world layout ALWAYS
\* fails with Error::NullWorldType, whatever its tileset definitions, layer
\* definitions and levels.
C4_AsClaimed ==
    (Returned /\ is_none(Doc.world_layout)) => loaded = LoadErr(NullWorldType)

\* C4, amended: loading a document that declares no world layout never
\* returns resources; it fails with Error::NullWorldType exactly when every
\* tileset definition has a matching texture and every layer definition has
\* a known type string, whatever the levels; otherwise the earlier failure
\* is what the caller gets: a panic for a tileset without texture, else
\* Error::LayerTypeNotFound.
C4_Theorem ==
    (Returned /\ is_none(Doc.world_layout)) =>
        /\ loaded.kind # "Ok"
        /\ is_none(loaded.res)
        /\ (AllTilesetsResolve /\ UnknownLayerDefs = {}) <=> (loaded = LoadErr(NullWorldType))
        /\ ~AllTilesetsResolve => loaded = LoadPanic
        /\ (AllTilesetsResolve /\ UnknownLayerDefs # {}) =>
              (loaded.kind = "Err" /\ unwrap(loaded.err).type = "LayerTypeNotFound")

\* A document without world layout, with tilesets, layer definitions and
\* levels that are all in order, was refused with NullWorldType.
C4_Witness ==
    /\ Returned
    /\ is_none(Doc.world_layout)
    /\ Len(Doc.defs.tilesets) = 2
    /\ Len(Doc.defs.layers) = 2
    /\ Len(Doc.levels) >= 1
    /\ loaded = LoadErr(NullWorldType)

----------------------------------------------------------------------------
(* C5 *)

FirstUnknownType == Doc.defs.layers[Least(UnknownLayerDefs)].layer_definition_type

\* C5 as claimed: loading a document with a layer definition whose type
\* string is not IntGrid, Tiles, AutoLayer or Entities ALWAYS fails with
\* Error::LayerTypeNotFound carrying the first such string in document order.
C5_AsClaimed ==
    (Returned /\ UnknownLayerDefs # {}) =>
        loaded = LoadErr(LayerTypeNotFound(FirstUnknownType))

\* C5, amended: loading a document with a layer definition whose type
\* string is not IntGrid, Tiles, AutoLayer or Entities never returns
\* resources; when every tileset definition has a matching texture it fails
\* with Error::LayerTypeNotFound carrying the first such string in document
\* order (with or without a world layout); when some tileset definition has
\* no matching texture the load panics before any layer definition is read.
C5_Theorem ==
    (Returned /\ UnknownLayerDefs # {}) =>
        /\ loaded.kind # "Ok"
        /\ is_none(loaded.res)
        /\ AllTilesetsResolve => loaded = LoadErr(LayerTypeNotFound(FirstUnknownType))
        /\ ~AllTilesetsResolve => loaded = LoadPanic

\* A document whose two layer definitions both have unknown types, "tiles"
\* before "Bogus", was refused with the first.
C5_Witness ==
    /\ Returned
    /\ Len(Doc.defs.layers) = 2
    /\ Doc.defs.layers[1].layer_definition_type = "tiles"
    /\ Doc.defs.layers[2].layer_definition_type = "Bogus"
    /\ Len(Doc.defs.tilesets) >= 1
    /\ loaded = LoadErr(LayerTypeNotFound("tiles"))

----------------------------------------------------------------------------
(* C6 *)

\* C6 as claimed: after a successful load every layer instance of every
\* stored level resolves: its layerdef_id is a key of layer_defs and its
\* tileset_id, when present, a key of tilesets.
C6_AsClaimed ==
    loaded.kind = "Ok" =>
        \A c \in DOMAIN Res.levels :
            \A l \in DOMAIN Res.levels[c].layers :
                LET layer == Res.levels[c].layers[l]
                IN  /\ layer.layerdef_id \in DOMAIN Res.layer_defs
                    /\ ~is_none(layer.tileset_id) =>
                          unwrap(layer.tileset_id) \in DOMAIN Res.tilesets

----------------------------------------------------------------------------
(* C7 *)

\* C7: get_entities on an existing level returns every entity of every
\* layer of the level exactly once, layer by layer in render order and
\* within a layer in the layer's order; no call changes the loaded
\* resources, so a repeated call, whatever was queried in between, returns
\* the same sequence.
C7_Theorem ==
    [][/\ loaded.kind = "Ok" => loaded' = loaded
       /\ (loaded'.kind = "Ok" /\ ret'.op = "get_entities"
             /\ ret'.args[1] \in DOMAIN unwrap(loaded'.res).levels) =>
             LET layers == unwrap(loaded'.res).levels[ret'.args[1]].layers
             IN  /\ ~ret'.panic
                 /\ Len(ret'.val) = EntitiesBefore(layers, Len(layers) + 1)
                 /\ \A l \in DOMAIN layers :
                       \A e \in DOMAIN layers[l].entities :
                          ret'.val[EntitiesBefore(layers, l) + e] = layers[l].entities[e]
      ]_vars

\* get_entities returned the five entities of a level whose first and third
\* layers hold two and three entities, the last of the first layer being
\* equal to the first of the third.
C7_Witness ==
    /\ loaded.kind = "Ok"
    /\ ret.op = "get_entities"
    /\ ret.args[1] \in DOMAIN Res.levels
    /\ Len(Res.levels[ret.args[1]].layers) = 3
    /\ Len(Res.levels[ret.args[1]].layers[1].entities) = 2
    /\ Len(Res.levels[ret.args[1]].layers[3].entities) = 3
    /\ Len(ret.val) = 5
    /\ ret.val[1] # ret.val[2]
    /\ ret.val[2] = ret.val[3]

----------------------------------------------------------------------------
(* C8 *)

\* C8: convert_entity_instance never fails, and the converted entity has
\* world coordinates if and only if the input has both world_x and world_y,
\* and then they are [world_x, world_y].
C8_Theorem ==
    ret.op = "convert_entity_instance" =>
        LET input == ret.args[1]
            both == ~is_none(input.world_x) /\ ~is_none(input.world_y)
        IN  /\ ~ret.panic
            /\ ~is_none(ret.val.world_coords) <=> both
            /\ both => ret.val.world_coords =
                          Some(<<unwrap(input.world_x), unwrap(input.world_y)>>)

\* An entity with world_x but no world_y was converted to one without
\* world coordinates.
C8_Witness ==
    /\ ret.op = "convert_entity_instance"
    /\ ~is_none(ret.args[1].world_x)
    /\ is_none(ret.args[1].world_y)
    /\ ~ret.panic
    /\ is_none(ret.val.world_coords)

----------------------------------------------------------------------------
(* C9 *)

ConvertedTiles(src) == [k \in 1..Len(src) |-> convert_tile_instance(src[k])]

\* C9: in a converted level each layer's tiles are the conversion of its
\* manual tile list, in order, whenever that list is not empty (the auto
\* tiles are then dropped), and the conversion of its auto tile list, in
\* order, when the manual list is empty; the two are never mixed.
C9_Theorem ==
    (ret.op = "convert_level" /\ ~ret.panic) =>
        LET ins == unwrap(ret.args[1].layer_instances)
        IN  /\ Len(ret.val.layers) = Len(ins)
            /\ \A l \in DOMAIN ins :
                  ret.val.layers[l].tiles =
                      IF Len(ins[l].grid_tiles) > 0
                      THEN ConvertedTiles(ins[l].grid_tiles)
                      ELSE ConvertedTiles(ins[l].auto_layer_tiles)

\* A layer with a manual tile and two auto tiles, all different from it,
\* was converted to the manual tile alone.
C9_Witness ==
    /\ ret.op = "convert_level"
    /\ ~ret.panic
    /\ LET l == unwrap(ret.args[1].layer_instances)[1]
       IN  /\ Len(l.grid_tiles) = 1
           /\ Len(l.auto_layer_tiles) = 2
           /\ l.auto_layer_tiles[1] # l.grid_tiles[1]
           /\ l.auto_layer_tiles[2] # l.grid_tiles[1]
           /\ ret.val.layers[1].tiles = <<convert_tile_instance(l.grid_tiles[1])>>

----------------------------------------------------------------------------
(* C10 *)

\* C10: a load that returns resources stored, for each tileset definition,
\* a tileset under the definition's path whose texture_index is the index
\* of the first caller pair with that path (a valid index of the caller's
\* list); a tileset definition without path or without matching pair makes
\* the load panic, returning no resources, whatever the layer definitions
\* and the world layout are.
C10_Theorem ==
    Returned =>
        /\ ~AllTilesetsResolve => (loaded = LoadPanic /\ is_none(loaded.res))
        /\ loaded.kind = "Ok" =>
              /\ DOMAIN Res.tilesets =
                    {unwrap(Doc.defs.tilesets[i].rel_path) : i \in DOMAIN Doc.defs.tilesets}
              /\ \A p \in DOMAIN Res.tilesets :
                    LET tex_i == Res.tilesets[p].texture_index
                    IN  /\ tex_i \in 0..(Len(textures) - 1)
                        /\ textures[tex_i + 1][2] = p
                        /\ \A j \in 0..(tex_i - 1) : textures[j + 1][2] # p

\* Resources were returned for a tileset whose path two caller pairs carry,
\* bound to the first.
C10_Witness ==
    /\ loaded.kind = "Ok"
    /\ Len(textures) = 2
    /\ textures[1][2] = "a.png" /\ textures[2][2] = "a.png"
    /\ "a.png" \in DOMAIN Res.tilesets
    /\ Res.tilesets["a.png"].texture_index = 0


----------------------------------------------------------------------------
(* C11 *)

\* The arguments and the level of the draw_level call that has returned.
DrawCoord == ret.args[1]

DrawOrigin == ret.args[2]

DrawSource == ret.args[3]

DrawLayers == Res.levels[DrawCoord].layers

\* draw_level has been called on a level that the resources hold.
DrewExistingLevel ==
    /\ loaded.kind = "Ok"
    /\ ret.op = "draw_level"
    /\ DrawCoord \in DOMAIN Res.levels

\* Every id that the layers of the drawn level store is a key of its map.
DrawLayersResolve ==
    \A l \in DOMAIN DrawLayers :
        /\ DrawLayers[l].layerdef_id \in DOMAIN Res.layer_defs
        /\ is_none(DrawLayers[l].tileset_id)
              \/ unwrap(DrawLayers[l].tileset_id) \in DOMAIN Res.tilesets

\* px / cell lies in [lo, lo + len), for a positive cell size.
InCells(px, cell, lo, len) == lo * cell <= px /\ px < (lo + len) * cell

\* The tile size of the tileset bound to layer l.
TileCell(l) == Res.tilesets[unwrap(DrawLayers[l].tileset_id)].tile_grid_size

\* The grid size of layer l itself.
LayerCell(l) == DrawLayers[l].grid_size

\* Tile k of layer l is visible, with cell the grid cell size of the layer.
Visible(l, k, cell) ==
    /\ Res.layer_defs[DrawLayers[l].layerdef_id].layer_type # "Entities"
    /\ ~is_none(DrawLayers[l].tileset_id)
    /\ \/ is_none(DrawSource)
       \/ /\ InCells(DrawLayers[l].tiles[k].px_coords[1], cell,
                     unwrap(DrawSource).x, unwrap(DrawSource).w)
          /\ InCells(DrawLayers[l].tiles[k].px_coords[2], cell,
                     unwrap(DrawSource).y, unwrap(DrawSource).h)

\* The visible tiles under the tileset's tile size and under the layer's
\* grid size, as <<layer, tile>> positions.
VisibleTiles ==
    {p \in UNION {{<<l, k>> : k \in DOMAIN DrawLayers[l].tiles} : l \in DOMAIN DrawLayers} :
        Visible(p[1], p[2], TileCell(p[1]))}

VisibleByLayerGrid ==
    {p \in UNION {{<<l, k>> : k \in DOMAIN DrawLayers[l].tiles} : l \in DOMAIN DrawLayers} :
        Visible(p[1], p[2], LayerCell(p[1]))}

\* How many tiles of V come before p in layer order and then tile order.
DrawRank(V, p) ==
    Cardinality({q \in V : q[1] < p[1] \/ (q[1] = p[1] /\ q[2] < p[2])})

\* The one call that tile p is drawn with.
DrawOf(p) ==
    LET layer == DrawLayers[p[1]]
        t == layer.tiles[p[2]]
        tileset == Res.tilesets[unwrap(layer.tileset_id)]
    IN  DrawCall(textures[tileset.texture_index + 1][1],
                 t.px_coords[1] + DrawOrigin.x, t.px_coords[2] + DrawOrigin.y,
                 Rect(t.src_coords[1], t.src_coords[2],
                      tileset.tile_grid_size, tileset.tile_grid_size))

\* The calls made are exactly those of the tiles of V, in order.
DrawsExactly(V) ==
    /\ Len(ret.val) = Cardinality(V)
    /\ \A p \in V : ret.val[DrawRank(V, p) + 1] = DrawOf(p)

\* C11: draw_level on an existing level returns having called the drawing
\* backend exactly once per visible tile, in layer order and then tile
\* order, each call at the tile's pixel position plus the origin, with the
\* bound tileset's texture and a source of one tile cell at the tile's
\* source coordinates; a tile is visible iff its layer's definition is not
\* of Entities type, its layer has a tileset, and no source rectangle was
\* given or its pixel position divided by the grid cell size (here the tile
\* size of the bound tileset, which is what the code divides by) lies in
\* [s.x, s.x + s.w) x [s.y, s.y + s.h).
C11_AsClaimed ==
    DrewExistingLevel => (~ret.panic /\ DrawsExactly(VisibleTiles))

\* The same for the levels whose layers all resolve: there the call
\* returns and the calls made are those of the visible tiles.
C11_Resolved ==
    (DrewExistingLevel /\ DrawLayersResolve) => (~ret.panic /\ DrawsExactly(VisibleTiles))

\* With the layers' own grid size as the grid cell size, for the levels
\* whose layers all resolve.
C11_ByLayerGrid ==
    (DrewExistingLevel /\ DrawLayersResolve) => (~ret.panic /\ DrawsExactly(VisibleByLayerGrid))

\* A level of three layers was drawn through a source rectangle that holds
\* one of its tiles and not the other: the Entities layer and the layer
\* with no tileset drew nothing.
C11_ResolvedWitness ==
    /\ DrewExistingLevel
    /\ DrawLayersResolve
    /\ ~is_none(DrawSource)
    /\ Len(DrawLayers) = 3
    /\ Res.layer_defs[DrawLayers[1].layerdef_id].layer_type = "Entities"
    /\ DrawLayers[1].tiles # << >>
    /\ is_none(DrawLayers[2].tileset_id)
    /\ DrawLayers[2].tiles # << >>
    /\ Len(DrawLayers[3].tiles) = 2
    /\ Len(ret.val) = 1

\* A level with a layer whose stored ids are no keys was drawn: the call
\* panicked after the calls of the layers before it.
C11_PanicWitness ==
    /\ DrewExistingLevel
    /\ ~DrawLayersResolve
    /\ ret.panic
    /\ Len(ret.val) = 2

====
